---------------------------- MODULE Spec2Model ----------------------------
(***************************************************************************)
(* A model of pyasdf/src/fastyaml.c: the materialisation of a libyaml      *)
(* event stream into a tree of Python values.                              *)
(*                                                                         *)
(* Bytes are integers 0..255; a C string is a sequence of bytes, its       *)
(* terminating NUL being the (virtual) element after the last one.         *)
(* A Python object is a record [kind, val, items, tag, raw, type]; val is  *)
(* always a tuple of integers so that any two objects can be compared.     *)
(***************************************************************************)
EXTENDS Integers, Sequences, FiniteSets, TLC

(***************************************************************************)
(* Characters and C strings                                                *)
(***************************************************************************)
AsciiTable ==
  << " ", "!", "<dq>", "#", "$", "%", "&", "'", "(", ")", "*", "+", ",", "-", ".", "/",
     "0", "1", "2", "3", "4", "5", "6", "7", "8", "9", ":", ";", "<", "=", ">", "?",
     "@", "A", "B", "C", "D", "E", "F", "G", "H", "I", "J", "K", "L", "M", "N", "O",
     "P", "Q", "R", "S", "T", "U", "V", "W", "X", "Y", "Z", "[", "<bs>", "]", "^", "_",
     "<bt>", "a", "b", "c", "d", "e", "f", "g", "h", "i", "j", "k", "l", "m", "n", "o",
     "p", "q", "r", "s", "t", "u", "v", "w", "x", "y", "z", "{", "|", "}", "~" >>

\* The byte of a printable ASCII character.
Ord(c) == 31 + (CHOOSE i \in 1..Len(AsciiTable) : AsciiTable[i] = c)

\* The bytes of a text written as a tuple of one-character strings.
Bytes(t) == [i \in 1..Len(t) |-> Ord(t[i])]

\* value[i] of a NUL-terminated C string (i counted from 0).
At(s, i) == IF i + 1 <= Len(s) THEN s[i + 1] ELSE 0

\* #define IS_DIGIT(c)
IS_DIGIT(c) == (c >= 48) /\ (c <= 57)

RECURSIVE StrCmpFrom(_, _, _, _, _)
StrCmpFrom(s, off, lit, n, i) ==
  IF i = n THEN TRUE
  ELSE IF At(s, off + i) # At(lit, i) THEN FALSE
  ELSE IF At(s, off + i) = 0 THEN TRUE
  ELSE StrCmpFrom(s, off, lit, n, i + 1)

\* A variant of StrNCmpEq that leaves the terminating NUL out of the
\* comparison.
StrNCmpPrefix(s, off, lit, n) == StrCmpFrom(s, off, Bytes(lit), n - 1, 0)

\* strncmp(s + off, lit, n) == 0
StrNCmpEq(s, off, lit, n) == StrCmpFrom(s, off, Bytes(lit), n, 0)

(***************************************************************************)
(* Python values (val is a tuple of integers)                              *)
(***************************************************************************)
NULL == [kind |-> "NULL", val |-> <<>>]
PyNone == [kind |-> "Null", val |-> <<>>]
PyBool(b) == [kind |-> "Bool", val |-> <<IF b THEN 1 ELSE 0>>]
PyInt(n) == [kind |-> "Int", val |-> <<n>>]
PyStr(cps) == [kind |-> "String", val |-> cps]

\* Floats: <<class, mantissa, exponent>>.  Class 0 is a finite double of
\* magnitude 1e-314 or more, or zero: the value is mantissa * 10^exponent,
\* mantissa without trailing zeros (decimals of up to ten digits are distinct
\* doubles there).  Class 3 is a subnormal double below 1e-314: the value is
\* mantissa * 2^-1074.  Class 4 is -0.0, 1 is +Infinity, -1 is -Infinity, 2 is
\* NaN.
RECURSIVE NormFloat(_, _)
NormFloat(m, e) ==
  IF m = 0 THEN <<0, 0, 0>>
  ELSE IF m % 10 = 0 THEN NormFloat(m \div 10, e + 1)
  ELSE <<0, m, e>>

PyFloatFin(m, e) == [kind |-> "Float", val |-> NormFloat(m, e)]
PyFloatInf(sign) == [kind |-> "Float", val |-> <<sign, 0, 0>>]
PyFloatNaN == [kind |-> "Float", val |-> <<2, 0, 0>>]
PyFloatSub(k) == [kind |-> "Float", val |-> <<3, k, 0>>]
PyFloatNegZero == [kind |-> "Float", val |-> <<4, 0, 0>>]

(***************************************************************************)
(* PyUnicode_DecodeUTF8(value, length, NULL): strict UTF-8                  *)
(***************************************************************************)
IsCont(b) == b >= 128 /\ b <= 191

RECURSIVE Utf8From(_, _, _)
\* Decodes s from position i (1-based); acc holds the code points so far.
Utf8From(s, i, acc) ==
  IF i > Len(s) THEN [ok |-> TRUE, cps |-> acc]
  ELSE LET b == s[i]
           c1 == At(s, i)
           c2 == At(s, i + 1)
           c3 == At(s, i + 2)
           bad == [ok |-> FALSE, cps |-> <<>>]
       IN IF b < 128 THEN Utf8From(s, i + 1, Append(acc, b))
          ELSE IF b >= 194 /\ b <= 223 THEN
            IF i + 1 <= Len(s) /\ IsCont(c1)
            THEN Utf8From(s, i + 2, Append(acc, (b - 192) * 64 + (c1 - 128)))
            ELSE bad
          ELSE IF b >= 224 /\ b <= 239 THEN
            IF /\ i + 2 <= Len(s) /\ IsCont(c1) /\ IsCont(c2)
               /\ (b = 224 => c1 >= 160)
               /\ (b = 237 => c1 <= 159)
            THEN Utf8From(s, i + 3,
                   Append(acc, (b - 224) * 4096 + (c1 - 128) * 64 + (c2 - 128)))
            ELSE bad
          ELSE IF b >= 240 /\ b <= 244 THEN
            IF /\ i + 3 <= Len(s) /\ IsCont(c1) /\ IsCont(c2) /\ IsCont(c3)
               /\ (b = 240 => c1 >= 144)
               /\ (b = 244 => c1 <= 143)
            THEN Utf8From(s, i + 4,
                   Append(acc, (b - 240) * 262144 + (c1 - 128) * 4096
                               + (c2 - 128) * 64 + (c3 - 128)))
            ELSE bad
          ELSE bad

\* The new string, or NULL with an exception set: UnicodeDecodeError, or
\* SystemError when the decoder builds its exception with an error already
\* pending.
PyUnicode_DecodeUTF8(s, err) ==
  LET d == Utf8From(s, 1, <<>>)
  IN IF d.ok THEN [obj |-> PyStr(d.cps), err |-> err]
     ELSE IF err # "" THEN [obj |-> NULL, err |-> "SystemError"]
     ELSE [obj |-> NULL, err |-> "UnicodeDecodeError"]

(***************************************************************************)
(* PyInt_FromString (PyLong_FromString under Python 3)                     *)
(***************************************************************************)
\* Py_ISSPACE
IsSpace(c) == c \in {9, 10, 11, 12, 13, 32}

\* _PyLong_DigitValue
DigitVal(c) ==
  IF c >= 48 /\ c <= 57 THEN c - 48
  ELSE IF c >= 97 /\ c <= 122 THEN c - 87
  ELSE IF c >= 65 /\ c <= 90 THEN c - 55
  ELSE 37

RECURSIVE SkipSpace(_, _)
SkipSpace(s, i) == IF IsSpace(At(s, i)) THEN SkipSpace(s, i + 1) ELSE i

RECURSIVE ScanDigits(_, _, _, _, _, _)
\* The digit loop: digits below the base, single underscores between them.
ScanDigits(s, i, base, prev, acc, n) ==
  LET c == At(s, i)
  IN IF c = 95
     THEN IF prev = 95 THEN [ok |-> FALSE, pos |-> i, val |-> acc, n |-> n]
          ELSE ScanDigits(s, i + 1, base, 95, acc, n)
     ELSE IF DigitVal(c) < base
     THEN ScanDigits(s, i + 1, base, c, acc * base + DigitVal(c), n + 1)
     ELSE [ok |-> prev # 95, pos |-> i, val |-> acc, n |-> n]

\* The base prefix PyLong_FromString skips: 0x for 16, 0o for 8, 0b for 2.
HasBasePrefix(s, i, base) ==
  /\ At(s, i) = 48
  /\ \/ base = 16 /\ At(s, i + 1) \in {120, 88}
     \/ base = 8 /\ At(s, i + 1) \in {111, 79}
     \/ base = 2 /\ At(s, i + 1) \in {98, 66}

\* After the digits d, which began at i2: trailing spaces, then the NUL.
IntFinish(s, i2, d, neg) ==
  [ok |-> At(s, i2) # 95 /\ d.ok /\ d.n > 0 /\ At(s, SkipSpace(s, d.pos)) = 0,
   val |-> IF neg THEN 0 - d.val ELSE d.val,
   end |-> SkipSpace(s, d.pos)]

\* After the sign, at i1: the base prefix (and one underscore), the digits.
IntAfterSign(s, i1, base, neg) ==
  IF HasBasePrefix(s, i1, base)
  THEN IF At(s, i1 + 2) = 95
       THEN IntFinish(s, i1 + 3, ScanDigits(s, i1 + 3, base, 0, 0, 0), neg)
       ELSE IntFinish(s, i1 + 2, ScanDigits(s, i1 + 2, base, 0, 0, 0), neg)
  ELSE IntFinish(s, i1, ScanDigits(s, i1, base, 0, 0, 0), neg)

\* After the leading spaces, at i0: the sign.
IntAfterSpace(s, i0, base) ==
  IF At(s, i0) \in {43, 45}
  THEN IntAfterSign(s, i0 + 1, base, At(s, i0) = 45)
  ELSE IntAfterSign(s, i0, base, FALSE)

\* PyInt_FromString(s + off, &end, base): the integer and the end position,
\* or NULL (ok = FALSE) with ValueError set.
PyInt_FromString(s, off, base) == IntAfterSpace(s, SkipSpace(s, off), base)

(***************************************************************************)
(* PyOS_string_to_double(s, &end, PyExc_OverflowError)                     *)
(***************************************************************************)
RECURSIVE ScanDec(_, _, _, _)
\* A run of decimal digits from position i.
ScanDec(s, i, acc, n) ==
  IF IS_DIGIT(At(s, i)) THEN ScanDec(s, i + 1, acc * 10 + (At(s, i) - 48), n + 1)
  ELSE [pos |-> i, val |-> acc, n |-> n]

RECURSIVE NumDigits(_)
NumDigits(m) == IF m < 10 THEN 1 ELSE 1 + NumDigits(m \div 10)

RECURSIVE Pow10(_)
Pow10(k) == IF k <= 0 THEN 1 ELSE 10 * Pow10(k - 1)

\* Whether m * 10^e (m > 0 without trailing zeros, at most 10 digits) is
\* beyond the largest double, 1.7976931348623157e308.
TooLarge(m, e) ==
  LET nd == NumDigits(m)
  IN \/ nd + e > 309
     \/ nd + e = 309 /\ m > 1797693134 \div Pow10(10 - nd)

\* The first 33 digits of 2^1074 = 2.024...e323, in groups of four, least
\* significant first.
Pow2_1074 == <<8917, 4671, 4953, 8352, 1061, 3073, 2253, 240, 2>>

\* m (below 2^31) in groups of four digits, least significant first.
Limbs(m) == <<m % 10000, (m \div 10000) % 10000, m \div 100000000>>

LimbAt(a, i) == IF i >= 1 /\ i <= Len(a) THEN a[i] ELSE 0

\* The sum of a[i] * c[j] over the groups with i + j = n (counted from 0).
LimbSum(a, c, n) ==
  LimbAt(a, 1) * LimbAt(c, n + 1) + LimbAt(a, 2) * LimbAt(c, n) + LimbAt(a, 3) * LimbAt(c, n - 1)

RECURSIVE LimbMul(_, _, _, _, _)
\* The product of a (three groups) and c, group n onwards, with its carry.
LimbMul(a, c, n, carry, acc) ==
  IF n > Len(c) + 3 THEN acc
  ELSE LimbMul(a, c, n + 1, (LimbSum(a, c, n) + carry) \div 10000,
               Append(acc, (LimbSum(a, c, n) + carry) % 10000))

\* The decimal digit of weight 10^u in the groups p.
DigitAt(p, u) == IF u < 0 THEN 0 ELSE (LimbAt(p, (u \div 4) + 1) \div Pow10(u % 4)) % 10

RECURSIVE DigitsFrom(_, _, _)
\* The number made of the ten digits of p from weight 10^t upwards.
DigitsFrom(p, t, j) ==
  IF j > 9 THEN 0 ELSE DigitAt(p, t + j) + 10 * DigitsFrom(p, t, j + 1)

\* m * 10^e (below 1e-314) in units of 2^-1074, rounded to nearest: the
\* product of m and 2^1074 = Pow2_1074 * 10^291, cut at the decimal point.
Subnormal(m, e) ==
  IF NumDigits(m) + e <= 0 - 324 THEN 0
  ELSE DigitsFrom(LimbMul(Limbs(m), Pow2_1074, 0, 0, <<>>), 0 - (291 + e), 0)
       + (IF DigitAt(LimbMul(Limbs(m), Pow2_1074, 0, 0, <<>>), 0 - (292 + e)) >= 5
          THEN 1 ELSE 0)

\* The double nearest to the decimal n = <<0, m, e>>, m > 0, within the range.
FloatRound(neg, n) ==
  IF NumDigits(n[2]) + n[3] > 0 - 314
  THEN PyFloatFin(IF neg THEN 0 - n[2] ELSE n[2], n[3])
  ELSE IF Subnormal(n[2], n[3]) = 0
  THEN IF neg THEN PyFloatNegZero ELSE PyFloatFin(0, 0)
  ELSE PyFloatSub(IF neg THEN 0 - Subnormal(n[2], n[3]) ELSE Subnormal(n[2], n[3]))

\* The double for mantissa digits mant and exponent e10, parsing having
\* stopped at stop; beyond the range it is -1.0 with OverflowError set, and
\* below the smallest subnormal it is zero with the sign of the text.
FloatMake(neg, mant, e10, stop) ==
  IF mant = 0
  THEN [d |-> IF neg THEN PyFloatNegZero ELSE PyFloatFin(0, 0), end |-> stop, exc |-> ""]
  ELSE IF TooLarge(NormFloat(mant, e10)[2], NormFloat(mant, e10)[3])
  THEN [d |-> PyFloatFin(0 - 1, 0), end |-> stop, exc |-> "OverflowError"]
  ELSE [d |-> FloatRound(neg, NormFloat(mant, e10)), end |-> stop, exc |-> ""]

\* The exponent digits ex after an e at position pe, if there are any.
FloatWithExp(neg, fp, pe, eneg, ex) ==
  IF ex.n > 0
  THEN FloatMake(neg, fp.val, (IF eneg THEN 0 - ex.val ELSE ex.val) - fp.n, ex.pos)
  ELSE FloatMake(neg, fp.val, 0 - fp.n, pe)

\* After the integer and fraction digits fp (n counts the fraction's).
FloatAfterFrac(s, neg, fp) ==
  IF At(s, fp.pos) \in {101, 69}
  THEN IF At(s, fp.pos + 1) \in {43, 45}
       THEN FloatWithExp(neg, fp, fp.pos, At(s, fp.pos + 1) = 45, ScanDec(s, fp.pos + 2, 0, 0))
       ELSE FloatWithExp(neg, fp, fp.pos, FALSE, ScanDec(s, fp.pos + 1, 0, 0))
  ELSE FloatMake(neg, fp.val, 0 - fp.n, fp.pos)

\* After the integer digits ip and the fraction digits fp: no digit at all
\* is no conversion (ValueError, end at the start).
FloatAfterDigits(s, neg, ip, fp) ==
  IF ip.n + fp.n = 0 THEN [d |-> PyFloatFin(0, 0), end |-> 0, exc |-> "ValueError"]
  ELSE FloatAfterFrac(s, neg, fp)

\* After the integer digits ip.
FloatAfterInt(s, neg, ip) ==
  IF At(s, ip.pos) = 46
  THEN FloatAfterDigits(s, neg, ip, ScanDec(s, ip.pos + 1, ip.val, 0))
  ELSE FloatAfterDigits(s, neg, ip, [pos |-> ip.pos, val |-> ip.val, n |-> 0])

\* The double, where parsing stopped, and the exception it set ("" if none).
PyOS_string_to_double(s) ==
  IF At(s, 0) \in {43, 45}
  THEN FloatAfterInt(s, At(s, 0) = 45, ScanDec(s, 1, 0, 0))
  ELSE FloatAfterInt(s, FALSE, ScanDec(s, 0, 0, 0))

(***************************************************************************)
(* _make_scalar: implicit typing of a scalar event                         *)
(***************************************************************************)
PLAIN == "plain"
SINGLE_QUOTED == "single-quoted"
DOUBLE_QUOTED == "double-quoted"
Styles == {PLAIN, SINGLE_QUOTED, DOUBLE_QUOTED}

\* Line 197, treat_as_string.
TreatAsString(value, err) == PyUnicode_DecodeUTF8(value, err)

\* Lines 187-199: the float parse rd, with err the error indicator before it.
FloatOrString(value, rd, err) ==
  IF rd.end = Len(value)
  THEN [obj |-> rd.d, err |-> IF rd.exc # "" THEN rd.exc ELSE err]
  ELSE TreatAsString(value, "")

\* Lines 177-185: the decimal parse ri of the whole text.
IntOrFloat(value, ri, err) ==
  IF ri.ok /\ ri.end = Len(value) THEN [obj |-> PyInt(ri.val), err |-> err]
  ELSE FloatOrString(value, PyOS_string_to_double(value), IF ri.ok THEN err ELSE "")

\* Lines 175-199: a text whose first character after the sign is a digit or
\* a dot is tried as a decimal integer, then as a float.
GenericNumeric(value, numstart, err) ==
  IF IS_DIGIT(At(value, numstart)) \/ At(value, numstart) = 46
  THEN IntOrFloat(value, PyInt_FromString(value, 0, 10), err)
  ELSE TreatAsString(value, err)

\* A variant of PrefixedInt that takes a text the prefixed parse rejects as
\* a string at once.
PrefixedIntOrString(value, r, err) ==
  IF ~r.ok THEN TreatAsString(value, "")
  ELSE IF r.end # Len(value) THEN GenericNumeric(value, 0, err)
  ELSE [obj |-> PyInt(r.val), err |-> err]

\* Lines 110-117 and 121-128: the parse r of the text after the 0x or 0.
PrefixedInt(value, r, err) ==
  IF ~r.ok THEN GenericNumeric(value, 0, "")
  ELSE IF r.end # Len(value) THEN GenericNumeric(value, 0, err)
  ELSE [obj |-> PyInt(r.val), err |-> err]

\* The object for a literal.
Literal(obj, err) == [obj |-> obj, err |-> err]

\* Lines 93-173: the switch on the first character.
ScalarSwitch(value, c0, c1, err) ==
  CASE c0 = 46 ->
         IF StrNCmpEq(value, 1, <<"N", "a", "N">>, 4) THEN Literal(PyFloatNaN, err)
         ELSE IF StrNCmpEq(value, 1, <<"n", "a", "n">>, 4) THEN Literal(PyFloatNaN, err)
         ELSE IF StrNCmpEq(value, 1, <<"I", "n", "f">>, 4) THEN Literal(PyFloatInf(1), err)
         ELSE IF StrNCmpEq(value, 1, <<"i", "n", "f">>, 4) THEN Literal(PyFloatInf(1), err)
         ELSE GenericNumeric(value, 0, err)
    [] c0 = 48 ->
         IF c1 = 120 THEN PrefixedInt(value, PyInt_FromString(value, 2, 16), err)
         ELSE IF c1 >= 48 /\ c1 <= 56
         THEN PrefixedInt(value, PyInt_FromString(value, 1, 8), err)
         ELSE IF Len(value) = 1 THEN Literal(PyInt(0), err)
         ELSE GenericNumeric(value, 0, err)
    [] c0 = 45 ->
         IF c1 = 46 /\ StrNCmpEq(value, 2, <<"I", "n", "f">>, 4)
         THEN Literal(PyFloatInf(0 - 1), err)
         ELSE IF c1 = 46 /\ StrNCmpEq(value, 2, <<"i", "n", "f">>, 4)
         THEN Literal(PyFloatInf(0 - 1), err)
         ELSE GenericNumeric(value, 1, err)
    [] c0 = 43 ->
         IF c1 = 46 /\ StrNCmpEq(value, 2, <<"I", "n", "f">>, 4)
         THEN Literal(PyFloatInf(1), err)
         ELSE IF c1 = 46 /\ StrNCmpEq(value, 2, <<"i", "n", "f">>, 4)
         THEN Literal(PyFloatInf(1), err)
         ELSE GenericNumeric(value, 1, err)
    [] c0 = 110 ->
         IF StrNCmpEq(value, 1, <<"u", "l", "l">>, 4) THEN Literal(PyNone, err)
         ELSE TreatAsString(value, err)
    [] c0 = 116 ->
         IF StrNCmpEq(value, 1, <<"r", "u", "e">>, 4) THEN Literal(PyBool(TRUE), err)
         ELSE TreatAsString(value, err)
    [] c0 = 102 ->
         IF StrNCmpEq(value, 1, <<"a", "l", "s", "e">>, 5) THEN Literal(PyBool(FALSE), err)
         ELSE TreatAsString(value, err)
    [] OTHER -> GenericNumeric(value, 0, err)

\* A variant of QuotedOrEmpty that overlooks the double-quoted style.
QuotedOrEmptySingleOnly(value, style) ==
  Len(value) = 0 \/ style = SINGLE_QUOTED

\* Whether the scalar is taken as a string without looking at it (line 87).
QuotedOrEmpty(value, style) ==
  Len(value) = 0 \/ style = SINGLE_QUOTED \/ style = DOUBLE_QUOTED

\* _make_scalar: the object (NULL when none) and the error indicator after.
_make_scalar(value, style, err) ==
  IF QuotedOrEmpty(value, style)
  THEN PyUnicode_DecodeUTF8(value, err)
  ELSE ScalarSwitch(value, At(value, 0), At(value, 1), err)

(***************************************************************************)
(* Events (yaml_event_t) and the Python heap                               *)
(***************************************************************************)
OMAP_TAG == "tag:yaml.org,2002:omap"

\* An event; the fields an event type does not carry are empty.
Ev(type, tag, anchor, value, style) ==
  [type |-> type, tag |-> tag, anchor |-> anchor, value |-> value, style |-> style]

Plain(type) == Ev(type, "", "", <<>>, PLAIN)

\* The event slot after yaml_parser_parse() cleared it and failed.
NoEvent == Plain("NO_EVENT")

AnchorNames == {"a", "b"}

\* A Python object: identity is its index in the heap, 0 is the C NULL.
Obj(kind, val) ==
  [kind |-> kind, val |-> val, items |-> <<>>, tag |-> "", raw |-> 0, type |-> ""]

ScalarKinds == {"Null", "Bool", "Int", "Float", "String"}

\* The kind that decides how a container takes its children: its own, or the
\* wrapped one's for a value the tag callback returned.
BaseKind(h, id) == IF h[id].kind = "Tagged" THEN h[h[id].raw].kind ELSE h[id].kind

\* The types of the objects a tag callback returns, by what the program asks
\* of them: "object" is a class of its own with methods written in Python,
\* hashed by identity; "builtin" is a subclass of dict or list, "user" one of
\* collections.UserDict or UserList, both unhashable.
WrapperTypes == {"object", "builtin", "user"}

\* hash(key) succeeds: lists and dicts are unhashable, and what the callback
\* returned is as its type says.
Hashable(h, id) ==
  \/ h[id].kind \in ScalarKinds
  \/ h[id].kind = "Tagged" /\ h[id].type = "object"

\* PyObject_CallMethod(result, "append", ...) made while an error is pending:
\* the exception it fails with.  A call comes back as NULL with SystemError
\* ("returned a result with an exception set"); on a subclass of list or
\* UserList the lookup of the method fails first.
AppendPending(h, r) ==
  IF h[r].kind = "Tagged" /\ h[r].type # "object" THEN "AttributeError"
  ELSE "SystemError"

\* What the lookup of __setitem__ on a UserDict does when made with an error
\* pending: it fails with AttributeError, or (the method being in the type's
\* cache) the call is made and comes back with SystemError.
LookupOutcomes == {"AttributeError", "SystemError"}

\* PyObject_SetItem(result, key, value) made while an error is pending: the
\* exception it fails with, lookup being the outcome of the method lookup;
\* "" where it stores the pair all the same (a dict, an OrderedDict, a
\* subclass of dict without a __setitem__ of its own).
SetItemPending(h, r, lookup) ==
  IF h[r].kind # "Tagged" \/ h[r].type = "builtin" THEN ""
  ELSE IF h[r].type = "user" THEN lookup
  ELSE "SystemError"

\* The number a bool, int or float stands for: a normalised decimal (or a
\* subnormal), the two zeros being one number.
NumKey(o) ==
  IF o.kind = "Float"
  THEN IF o.val[1] = 4 THEN <<0, 0, 0>> ELSE o.val
  ELSE NormFloat(o.val[1], 0)

\* key1 == key2 as a dict sees it: identity first, then equality.
KeyEq(h, a, b) ==
  \/ a = b
  \/ /\ h[a].kind = "String" /\ h[b].kind = "String" /\ h[a].val = h[b].val
  \/ /\ h[a].kind = "Null" /\ h[b].kind = "Null"
  \/ /\ h[a].kind \in {"Bool", "Int", "Float"}
     /\ h[b].kind \in {"Bool", "Int", "Float"}
     /\ NumKey(h[a])[1] # 2
     /\ NumKey(h[a]) = NumKey(h[b])

\* list.append(v)
ListAppend(items, v) == Append(items, v)

\* dict[k] = v: an equal key keeps its place and its key object and takes the
\* new value, a new key goes last.
DictSetItem(h, items, k, v) ==
  IF \E i \in 1..Len(items) : KeyEq(h, items[i][1], k)
  THEN [i \in 1..Len(items) |->
          IF KeyEq(h, items[i][1], k) THEN <<items[i][1], v>> ELSE items[i]]
  ELSE Append(items, <<k, v>>)

(***************************************************************************)
(* memo_anchor, tag_object, make_alias                                     *)
(***************************************************************************)
\* A variant of memo_anchor that keeps the entry a name already has.
memo_anchor_keep_first(anch, anchor_name, obj) ==
  IF anchor_name # "" /\ obj # 0 /\ anch[anchor_name] = 0
  THEN [anch EXCEPT ![anchor_name] = obj]
  ELSE anch

\* memo_anchor: the anchors dict afterwards.
memo_anchor(anch, anchor_name, obj) ==
  IF anchor_name # "" /\ obj # 0
  THEN [anch EXCEPT ![anchor_name] = obj]
  ELSE anch

\* What a call of the tag callback does: it returns a new object of some type
\* around the instance ("wrap"), it raises ("fail"), or, entered with an error
\* pending, it comes back with that error still set ("stale"), which the
\* interpreter turns into NULL with SystemError.
TagOutcomes ==
  {[does |-> d, type |-> t] : d \in {"wrap", "fail", "stale"}, t \in WrapperTypes}

\* Whether tag_object calls the callback.
TagCalled(tag, instance) == instance # 0 /\ tag # ""

\* tag_object: the heap, the error indicator and the object returned.  The
\* call is made whatever the error indicator holds.
tag_object(h, e, tag, instance, outcome) ==
  IF TagCalled(tag, instance)
  THEN IF outcome.does = "fail"
       THEN [heap |-> h, err |-> "TagError", obj |-> 0]
       ELSE IF e # "" /\ outcome.does = "stale"
       THEN [heap |-> h, err |-> "SystemError", obj |-> 0]
       ELSE [heap |-> Append(h, [Obj("Tagged", <<>>) EXCEPT !.tag = tag, !.raw = instance,
                                                          !.type = outcome.type]),
             err |-> "", obj |-> Len(h) + 1]
  ELSE [heap |-> h, err |-> e, obj |-> instance]

\* A variant of make_alias that looks every name up under "a".
make_alias_any_name(anch, anchor) == anch["a"]

\* make_alias: PyDict_GetItemString, NULL (0) and no exception when absent.
make_alias(anch, anchor) == IF anchor \in DOMAIN anch THEN anch[anchor] ELSE 0

(***************************************************************************)
(* The state of one parse_yaml call                                        *)
(***************************************************************************)
VARIABLES
  status,    \* "running", "returned", "failed" (an exception) or "crashed"
  stack,     \* the suspended C functions, innermost last
  event,     \* the yaml_event_t slot shared by all of them
  anchors,   \* the document's anchors dict: name -> object (0: no entry)
  heap,      \* the Python objects built so far
  err,       \* the error indicator ("" when clear)
  result,    \* the object parse_yaml returned (0: none)
  npulled,   \* the number of yaml_parser_parse calls made
  tagCalls,  \* the calls of the tag callback: <<tag, instance>>
  nv,        \* the object built for the event in the slot (0: none)
  alphabet,  \* this run: the name of its profile, its callback, its end
  ghost,     \* what the events pulled so far are according to the YAML grammar
  reader     \* read_handler's request, the scanner's buffer and what follows it

parseVars == <<status, stack, event, anchors, heap, err, result, npulled, tagCalls,
               nv, alphabet, ghost>>

vars == <<status, stack, event, anchors, heap, err, result, npulled, tagCalls,
          nv, alphabet, ghost, reader>>

(***************************************************************************)
(* read_handler: the scanner asks for up to size bytes in its buffer        *)
(***************************************************************************)
\* The largest request of the scanner.
MaxRead == 3

\* The bytes of memory after the scanner's buffer that the model follows,
\* and by how many bytes a source may exceed the request.
Slack == 2

\* The bytes a source returns.
ReadBytes == {97, 98}

Zeros(n) == [i \in 1..n |-> 0]

\* No request made yet.
ReaderIdle ==
  [pc |-> "idle", size |-> 0, source |-> "", data |-> <<>>, buffer |-> <<>>,
   beyond |-> Zeros(Slack), length |-> 0, ret |-> 0, exc |-> "", fault |-> FALSE]

\* What fd.read(size) answers: bytes, of any length up to size + Slack.
ReadAnswers(size) == UNION {[1..n -> ReadBytes] : n \in 0..(size + Slack)}

\* The outcomes of memcpy(buffer, py_buffer, py_length) for a py_length
\* beyond the buffer, which is undefined behaviour: the bytes after the
\* buffer are overwritten, or the process faults.
OverrunOutcomes == {"overwrite", "fault"}

\* memcpy(buffer, py_buffer, py_length) into a buffer of size bytes followed
\* by the bytes beyond.
memcpy(size, beyond, data, outcome) ==
  IF Len(data) <= size
  THEN [buffer |-> data \o Zeros(size - Len(data)), beyond |-> beyond, fault |-> FALSE]
  ELSE IF outcome = "fault"
  THEN [buffer |-> Zeros(size), beyond |-> beyond, fault |-> TRUE]
  ELSE [buffer |-> SubSeq(data, 1, size),
        beyond |-> SubSeq(data, size + 1, Len(data))
                   \o SubSeq(beyond, Len(data) - size + 1, Len(beyond)),
        fault |-> FALSE]

\* A suspended function: where it is (at), its result and key locals.
Frame(fn, at) == [fn |-> fn, at |-> at, result |-> 0, key |-> 0]

NoAnchors == [a \in AnchorNames |-> 0]

\* The program state the handlers transform, and what a method lookup made
\* with an error pending does in this step.
Machine ==
  [status |-> status, stack |-> stack, heap |-> heap, anchors |-> anchors,
   err |-> err, result |-> result, lookup |-> "SystemError"]

Top(m) == m.stack[Len(m.stack)]
Pop(m) == [m EXCEPT !.stack = SubSeq(m.stack, 1, Len(m.stack) - 1)]
SetTop(m, f) == [m EXCEPT !.stack[Len(m.stack)] = f]
SetErr(m, e) == [m EXCEPT !.err = e]

\* Py_DECREF(NULL): the process dies.
Crash(m) == [m EXCEPT !.status = "crashed", !.stack = <<>>]

\* parse_yaml, lines 560-581: what becomes of parse_stream's result r.
parse_yaml_exit(m, r) ==
  IF r = 0
  THEN [m EXCEPT !.status = "failed", !.stack = <<>>,
                 !.err = IF m.err = "" THEN "Error parsing YAML" ELSE m.err]
  ELSE IF m.err # ""
  THEN [m EXCEPT !.status = "failed", !.stack = <<>>]
  ELSE [m EXCEPT !.status = "returned", !.stack = <<>>, !.result = r]

\* PyObject_CallMethod(result, "append", "O", subresult) on a live list, no
\* error pending.
SeqAppend(h, r, v) == [h EXCEPT ![r].items = ListAppend(@, v)]

\* PyObject_SetItem(result, key, value) on a live dict.
MapSetItem(h, r, k, v) == [h EXCEPT ![r].items = DictSetItem(h, @, k, v)]

\* The event type that ends a sequence (line 333).
SequenceEndType == "SEQUENCE_END"

\* The event type that ends a mapping (line 379).
MappingEndType == "MAPPING_END"

RECURSIVE Deliver(_, _, _)

\* A variant of EntryKey that takes a MappingEnd at an entry's key place as the
\* end of an empty entry.
EntryKeyOrEmptyEntry(m, f, v, ty) ==
  IF v = 0
  THEN IF ty = "MAPPING_END" THEN SetTop(m, [f EXCEPT !.at = "239"])
       ELSE Deliver(Pop(m), 0, ty)
  ELSE SetTop(m, [f EXCEPT !.key = v, !.at = "value"])

\* parse_ordered_dict, lines 257-261: what parse_node returned for an entry's
\* key.
EntryKey(m, f, v, ty) ==
  IF v = 0 THEN Deliver(Pop(m), 0, ty)
  ELSE SetTop(m, [f EXCEPT !.key = v, !.at = "value"])

\* parse_node returns v (0: NULL) to the function on top of the stack while
\* the event slot holds an event of type ty; runs until the next
\* yaml_parser_parse call or the end of parse_yaml.
Deliver(m, v, ty) ==
  LET f == Top(m)
  IN CASE f.fn = "parse_document" ->
            IF v = 0 THEN parse_yaml_exit(m, 0)
            ELSE SetTop(m, [f EXCEPT !.result = v, !.at = "454"])
       [] f.fn = "parse_sequence" ->
            IF v # 0
            THEN IF f.result = 0
                 THEN Crash(SetErr(m, IF m.err = "" THEN "SystemError" ELSE m.err))
                 ELSE IF m.err # ""
                 THEN Deliver(SetErr(Pop(m), AppendPending(m.heap, f.result)), 0, ty)
                 ELSE [m EXCEPT !.heap = SeqAppend(m.heap, f.result, v)]
            ELSE IF ty = SequenceEndType THEN Deliver(Pop(m), f.result, ty)
            ELSE IF f.result = 0 THEN Crash(SetErr(m, "Expected sequence end event"))
            ELSE Deliver(SetErr(Pop(m), "Expected sequence end event"), 0, ty)
       [] f.fn = "parse_mapping" /\ f.at = "key" ->
            IF v # 0 THEN SetTop(m, [f EXCEPT !.key = v, !.at = "value"])
            ELSE IF ty = MappingEndType THEN Deliver(Pop(m), f.result, ty)
            ELSE IF f.result = 0 THEN Crash(SetErr(m, "Expected mapping end event"))
            ELSE Deliver(SetErr(Pop(m), "Expected mapping end event"), 0, ty)
       [] f.fn = "parse_mapping" /\ f.at = "value" ->
            IF f.result = 0
            THEN Crash(IF v = 0 \/ m.err # "" THEN m ELSE SetErr(m, "SystemError"))
            ELSE IF v = 0 THEN Deliver(Pop(m), 0, ty)
            ELSE IF m.err # "" /\ SetItemPending(m.heap, f.result, m.lookup) # ""
            THEN Deliver(SetErr(Pop(m), SetItemPending(m.heap, f.result, m.lookup)), 0, ty)
            ELSE IF ~Hashable(m.heap, f.key)
            THEN Deliver(SetErr(Pop(m), "TypeError: unhashable type"), 0, ty)
            ELSE SetTop([m EXCEPT !.heap = MapSetItem(m.heap, f.result, f.key, v)],
                        [f EXCEPT !.key = 0, !.at = "key"])
       [] f.fn = "parse_ordered_dict" /\ f.at = "key" -> EntryKey(m, f, v, ty)
       [] f.fn = "parse_ordered_dict" /\ f.at = "value" ->
            IF v = 0 THEN Deliver(Pop(m), 0, ty)
            ELSE IF ~Hashable(m.heap, f.key)
            THEN Deliver(SetErr(Pop(m), "TypeError: unhashable type"), 0, ty)
            ELSE SetTop([m EXCEPT !.heap = MapSetItem(m.heap, f.result, f.key, v)],
                        [f EXCEPT !.key = 0, !.at = "280"])

(***************************************************************************)
(* The grammar of the events pulled (a history kept beside the program):   *)
(* StreamStart, DocumentStart, one node, DocumentEnd, StreamEnd, a node    *)
(* being an Alias, a Scalar, or a SequenceStart/MappingStart closed by its *)
(* own End event, a mapping holding key/value pairs.                       *)
(***************************************************************************)
NodeTypes == {"ALIAS", "SCALAR", "SEQUENCE_START", "MAPPING_START"}
StartTypes == {"SEQUENCE_START", "MAPPING_START"}

GhostInit ==
  [phase |-> "StreamStart",  \* what the grammar expects next
   badAt |-> "",             \* where the events left the grammar
   stack |-> <<>>,           \* the open containers: [kind, id, kids, entry]
   done |-> <<>>,            \* the closed containers: [kind, id, kids]
   reg |-> NoAnchors,        \* anchor -> the object of the last node so named
   regtag |-> [a \in AnchorNames |-> FALSE],  \* ... and whether that node had a tag
   tags |-> FALSE,           \* some node carried a tag
   tagged |-> <<>>,          \* the tagged nodes in event order: <<tag, event type>>
   raised |-> FALSE,         \* the tag callback raised
   reported |-> FALSE,       \* some step left an error pending
   undef |-> FALSE,          \* an alias in a node's place named no registered anchor
   aliased |-> FALSE,        \* an alias in a node's place named a registered anchor
   badOmap |-> FALSE]        \* some omap entry was not a one-pair mapping

GFrame(kind, id, entry) == [kind |-> kind, id |-> id, kids |-> <<>>, entry |-> entry]

GBad(g, where) == [g EXCEPT !.phase = "bad", !.badAt = where, !.stack = <<>>]

\* A node event e, for which the program built object v, below the open
\* containers.
GhostNode(g, e, v) ==
  LET n == Len(g.stack)
      top == g.stack[n]
      inOmap == n > 0 /\ top.kind = "omap"
      isEntry == inOmap /\ e.type = "MAPPING_START"
      kind == IF e.type = "MAPPING_START" THEN "map"
              ELSE IF e.tag = OMAP_TAG THEN "omap" ELSE "seq"
      third == n > 0 /\ top.entry /\ Len(top.kids) >= 2
      alias == e.type = "ALIAS" /\ ~inOmap
      g1 == [g EXCEPT !.badOmap = @ \/ (inOmap /\ ~isEntry) \/ third,
                      !.undef = @ \/ (alias /\ g.reg[e.anchor] = 0),
                      !.aliased = @ \/ (alias /\ g.reg[e.anchor] # 0)]
      g2 == IF n > 0 /\ ~isEntry THEN [g1 EXCEPT !.stack[n].kids = Append(@, v)] ELSE g1
  IN IF e.type \in StartTypes
     THEN [g2 EXCEPT !.stack = Append(@, GFrame(kind, v, isEntry))]
     ELSE IF n = 0 THEN [g2 EXCEPT !.phase = "DocumentEnd"] ELSE g2

\* The End event that closes the innermost open container.
GhostClose(g) ==
  LET n == Len(g.stack)
      top == g.stack[n]
      rest == SubSeq(g.stack, 1, n - 1)
      up == IF top.entry
            THEN [rest EXCEPT ![n - 1].kids = @ \o top.kids]
            ELSE rest
  IN [g EXCEPT !.stack = up,
               !.done = IF top.entry THEN @
                        ELSE Append(@, [kind |-> top.kind, id |-> top.id, kids |-> top.kids]),
               !.badOmap = @ \/ (top.entry /\ Len(top.kids) # 2),
               !.phase = IF n = 1 THEN "DocumentEnd" ELSE @]

GhostInNode(g, e, v) ==
  LET n == Len(g.stack)
      top == g.stack[n]
  IN IF n > 0 /\ e.type = "SEQUENCE_END" /\ top.kind \in {"seq", "omap"} THEN GhostClose(g)
     ELSE IF n > 0 /\ e.type = "MAPPING_END" /\ top.kind = "map" /\ Len(top.kids) % 2 = 0
     THEN GhostClose(g)
     ELSE IF e.type \in NodeTypes THEN GhostNode(g, e, v)
     ELSE GBad(g, IF n = 0 THEN "root" ELSE "inner")

\* The history after event e, for which the program built object v.
GhostStep(g, e, v) ==
  LET g1 == [g EXCEPT
               !.tags = @ \/ e.tag # "",
               !.tagged = IF e.type \in NodeTypes \ {"ALIAS"} /\ e.tag # ""
                          THEN Append(@, <<e.tag, e.type>>) ELSE @,
               !.reg = IF e.type \in NodeTypes \ {"ALIAS"} /\ e.anchor # "" /\ v # 0
                       THEN [@ EXCEPT ![e.anchor] = v] ELSE @,
               !.regtag = IF e.type \in NodeTypes \ {"ALIAS"} /\ e.anchor # "" /\ v # 0
                          THEN [@ EXCEPT ![e.anchor] = e.tag # ""] ELSE @]
  IN CASE g.phase = "StreamStart" ->
            IF e.type = "STREAM_START" THEN [g1 EXCEPT !.phase = "DocumentStart"]
            ELSE GBad(g1, "StreamStart")
       [] g.phase = "DocumentStart" ->
            IF e.type = "DOCUMENT_START" THEN [g1 EXCEPT !.phase = "node"]
            ELSE GBad(g1, "DocumentStart")
       [] g.phase = "node" -> GhostInNode(g1, e, v)
       [] g.phase = "DocumentEnd" ->
            IF e.type = "DOCUMENT_END" THEN [g1 EXCEPT !.phase = "StreamEnd"]
            ELSE GBad(g1, "DocumentEnd")
       [] g.phase = "StreamEnd" ->
            IF e.type = "STREAM_END" THEN [g1 EXCEPT !.phase = "done"]
            ELSE GBad(g1, "StreamEnd")
       [] OTHER -> g1

(***************************************************************************)
(* The event producer: the events a run may be fed                         *)
(***************************************************************************)
\* The longest event stream fed to one parse.
MaxEvents == 8

Scalar(text, tag, anchor) == Ev("SCALAR", tag, anchor, Bytes(text), PLAIN)
SeqStart(tag, anchor) == Ev("SEQUENCE_START", tag, anchor, <<>>, PLAIN)
MapStart(tag, anchor) == Ev("MAPPING_START", tag, anchor, <<>>, PLAIN)
Alias(anchor) == Ev("ALIAS", "", anchor, <<>>, PLAIN)

StructureEvents ==
  {Plain("STREAM_START"), Plain("STREAM_END"), Plain("DOCUMENT_START"),
   Plain("DOCUMENT_END"), Plain("SEQUENCE_END"), Plain("MAPPING_END")}

\* A profile: the events a run draws from, how many more than MaxEvents it
\* may draw (the longer streams come with the smaller alphabets), and how
\* much deeper than MaxDepth its containers may nest.
Profile(name, nodes, extra) ==
  [name |-> name, events |-> StructureEvents \cup nodes, extra |-> extra, deeper |-> 0]

\* A run of profile p: the type of the objects its tag callback returns, and
\* whether the producer's stream is followed to its end.
Run(p, wrapper, finite) == [name |-> p.name, wrapper |-> wrapper, finite |-> finite]

\* The runs of profile p, one for each type of tag callback.
Wrapping(p) == {Run(p, t, FALSE) : t \in WrapperTypes}

\* Untagged, unanchored nodes.
PlainNodes ==
  Profile("plain",
          {Scalar(<<"k">>, "", ""), Scalar(<<"1">>, "", ""), SeqStart("", ""),
           MapStart("", "")}, 1)

\* Anchored nodes and aliases, "b" being an anchor no node has.
AnchorNodes ==
  Profile("anchor",
          {Scalar(<<"k">>, "", "a"), SeqStart("", "a"), SeqStart(OMAP_TAG, ""),
           MapStart("", ""), Alias("a"), Alias("b")}, 1)

\* Tagged nodes, anchored or not.
TagNodes ==
  Profile("tag",
          {Scalar(<<"1", ".", "5">>, "", ""), Scalar(<<"k">>, "!t", "a"),
           SeqStart("!t", "a"), MapStart("!t", ""), Alias("a")}, 0)

\* Ordered maps.
OmapNodes ==
  Profile("omap",
          {Scalar(<<"k">>, "", ""), Scalar(<<"1">>, "", ""), SeqStart(OMAP_TAG, "a"),
           MapStart("", "")}, 4)

\* Ordered maps one level deeper: an ordered map with its entries inside a
\* mapping, a sequence or another ordered map's entry.
NestedOmapNodes ==
  [Profile("nested omap",
           {Scalar(<<"k">>, "", ""), SeqStart("", ""), SeqStart(OMAP_TAG, ""),
            MapStart("", "")}, 0) EXCEPT !.deeper = 1]

\* Numbers beyond the range of a double, next to numbers within it.
RangeNodes ==
  Profile("range",
          {Scalar(<<"1", "e", "9", "9", "9">>, "", ""), Scalar(<<"1", ".", "5">>, "", ""),
           SeqStart("", ""), MapStart("", "")}, 0)

Profiles ==
  {Run(p, "object", FALSE) :
     p \in {PlainNodes, AnchorNodes, OmapNodes, NestedOmapNodes, RangeNodes}}
  \cup Wrapping(TagNodes)

\* The longest text built from ScalarAlphabet.
MaxLen == 3

ScalarAlphabet == {Ord(c) : c \in {"0", "1", "8", "x", "A", ".", "-", "e"}}

ScalarSamples ==
  {Bytes(<<"1", "2", "3">>), Bytes(<<"t", "r", "u", "e">>),
   Bytes(<<"f", "a", "l", "s", "e">>), Bytes(<<"n", "u", "l", "l">>),
   Bytes(<<"0", "x", "1", "A">>), Bytes(<<"0", "1", "0">>),
   Bytes(<<".", "i", "n", "f">>), Bytes(<<"-", ".", "I", "n", "f">>),
   Bytes(<<".", "N", "a", "N">>), Bytes(<<"1", ".", "5">>), Bytes(<<"k">>),
   Bytes(<<"0", "x", "1", "G">>), Bytes(<<"0", "x", "-", "1">>),
   Bytes(<<"0", "x", " ", "1", "A">>), Bytes(<<"0", "x", "1", "_", "A">>),
   Bytes(<<"0", "1", "9">>), Bytes(<<"0", "9">>), Bytes(<<"0", "1", "7">>),
   Bytes(<<"0", "7", "7", "7">>), Bytes(<<"0", "7", "8">>),
   Bytes(<<".", "n", "a", "n">>), Bytes(<<".", "I", "n", "f">>),
   Bytes(<<"+", ".", "I", "n", "f">>), Bytes(<<"+", ".", "i", "n", "f">>),
   Bytes(<<"-", ".", "i", "n", "f">>), Bytes(<<"n", "u", "l", "l", "x">>),
   Bytes(<<"t", "r", "u", "e", "y">>), Bytes(<<".", "i", "n", "f", "x">>),
   Bytes(<<"f", "a", "l", "s", "e", "s">>), Bytes(<<"-", ".", "I", "n", "f", "x">>),
   Bytes(<<"N", "u", "l", "l">>), Bytes(<<"T", "R", "U", "E">>),
   Bytes(<<".", "I", "N", "F">>), Bytes(<<".", "N", "A", "N">>),
   Bytes(<<"-", ".", "I", "N", "F">>), Bytes(<<"n", "u", "l">>), Bytes(<<"~">>),
   Bytes(<<"i", "n", "f">>), Bytes(<<"-", "i", "n", "f">>), Bytes(<<"n", "a", "n">>),
   <<195, 169>>, <<107, 226, 130, 172>>, <<240, 159, 144, 141>>}

ScalarTexts ==
  ScalarSamples \cup UNION {[1..n -> ScalarAlphabet] : n \in 0..MaxLen}

ScalarEvents ==
  {Ev("SCALAR", "", "", text, style) : text \in ScalarTexts, style \in Styles}

\* The profile of the scalar resolver alone: its events are ScalarEvents.
ScalarNodes == [Profile("scalar", {}, 0) EXCEPT !.events = ScalarEvents]

\* The profile of this run.
Drawn ==
  CHOOSE p \in {PlainNodes, AnchorNodes, TagNodes, OmapNodes, NestedOmapNodes, RangeNodes,
                ScalarNodes} : p.name = alphabet.name

\* The deepest nesting of containers in a stream fed to one parse.
MaxDepth == 2

\* The length limit of this run.
Limit == MaxEvents + Drawn.extra

\* The streams whose end the run follows: after Limit events the producer
\* has no event left, and yaml_parser_parse either succeeds with the slot
\* cleared (NO_EVENT, as after the stream end) or fails.
FiniteProfiles == {Run(p, "object", TRUE) : p \in {TagNodes, AnchorNodes}}

\* The run may call yaml_parser_parse once more.
MayPull == npulled < Limit \/ alphabet.finite

(***************************************************************************)
(* The steps of parse_yaml: one per yaml_parser_parse call                 *)
(***************************************************************************)
Start(profiles) ==
  /\ status = "running"
  /\ stack = <<Frame("parse_stream", "482")>>
  /\ event = NoEvent
  /\ anchors = NoAnchors
  /\ heap = <<>>
  /\ err = ""
  /\ result = 0
  /\ npulled = 0
  /\ tagCalls = <<>>
  /\ nv = 0
  /\ alphabet \in profiles
  /\ ghost = GhostInit
  /\ reader = ReaderIdle

Init == Start(Profiles)

\* The containers open where the program stands: one for each sequence,
\* mapping and ordered dict, and one more for an ordered dict's open entry.
Depth ==
  Len(stack) - 2
  + Cardinality({i \in 1..Len(stack) :
                   stack[i].fn = "parse_ordered_dict" /\ stack[i].at # "239"})

\* The events the producer may yield next: those of the run's profile, a
\* container being opened only while the nesting is below the depth limit.
Events ==
  IF npulled >= Limit THEN {NoEvent}
  ELSE {e \in Drawn.events : e.type \in StartTypes => Depth < MaxDepth + Drawn.deeper}

\* The function on top of the stack is about to call yaml_parser_parse.
AtSite(fn, at) ==
  /\ status = "running"
  /\ MayPull
  /\ Top(Machine).fn = fn
  /\ Top(Machine).at = at

\* parse_node is about to call yaml_parser_parse (line 394).
AtNode ==
  /\ status = "running"
  /\ MayPull
  /\ \/ Top(Machine).fn = "parse_document" /\ Top(Machine).at = "root"
     \/ Top(Machine).fn = "parse_sequence"
     \/ Top(Machine).fn = "parse_mapping"
     \/ Top(Machine).fn = "parse_ordered_dict" /\ Top(Machine).at \in {"key", "value"}

\* The state after the step that pulled e, built v for it and left the program
\* in m.  A parse that ended with an exception has released what it built.
Commit(e, m, v, calls, g) ==
  LET over == m.status \in {"failed", "crashed"}
  IN /\ event' = e
     /\ npulled' = npulled + 1
     /\ alphabet' = alphabet
     /\ status' = m.status
     /\ stack' = m.stack
     /\ err' = m.err
     /\ result' = m.result
     /\ heap' = IF over THEN <<>> ELSE m.heap
     /\ anchors' = IF m.status = "running" THEN m.anchors ELSE NoAnchors
     /\ tagCalls' = IF over THEN <<>> ELSE calls
     /\ nv' = IF over THEN 0 ELSE v
     /\ ghost' = IF over
                 THEN [g EXCEPT !.stack = <<>>, !.done = <<>>, !.reg = NoAnchors,
                                !.regtag = GhostInit.regtag, !.tagged = <<>>]
                 ELSE g
     /\ reader' = reader

\* The callback raised in this step: it was called and no object came back
\* (its own exception, or SystemError for a call made with an error pending).
Raised(v, calls) == calls # tagCalls /\ v = 0

Step(e, m, v, calls) ==
  Commit(e, m, v, calls,
         GhostStep([ghost EXCEPT !.raised = @ \/ Raised(v, calls),
                                 !.reported = @ \/ m.err # ""], e, v))

\* parse_stream, lines 482-499.
parse_stream_start ==
  /\ AtSite("parse_stream", "482")
  /\ \E e \in Events :
       Step(e,
            IF e.type = "STREAM_START"
            THEN [Machine EXCEPT !.stack = <<Frame("parse_stream", "490"),
                                             Frame("parse_document", "432")>>]
            ELSE parse_yaml_exit(SetErr(Machine, "Expected stream start event"), 0),
            0, tagCalls)

\* parse_document, lines 432-452.
parse_document_start ==
  /\ AtSite("parse_document", "432")
  /\ \E e \in Events :
       Step(e,
            IF e.type = "DOCUMENT_START"
            THEN SetTop(Machine, Frame("parse_document", "root"))
            ELSE parse_yaml_exit(SetErr(Machine, "Expected document start event"), 0),
            0, tagCalls)

\* The root object a finished document hands to parse_stream (line 465).
DocumentResult(f) == f.result

\* parse_document, lines 454-473.
parse_document_end ==
  /\ AtSite("parse_document", "454")
  /\ \E e \in Events :
       Step(e,
            IF e.type = "DOCUMENT_END"
            THEN [Machine EXCEPT !.stack =
                    <<[Frame("parse_stream", "501") EXCEPT
                         !.result = DocumentResult(Top(Machine))]>>]
            ELSE parse_yaml_exit(SetErr(Machine, "Expected document end event"), 0),
            0, tagCalls)

\* A variant of IsStreamEnd that lets a second document pass as the end.
IsStreamEndOrDocument(e) == e.type \in {"STREAM_END", "DOCUMENT_START"}

\* Whether parse_stream takes the event after the document as the end of
\* the stream (line 509).
IsStreamEnd(e) == e.type = "STREAM_END"

\* parse_stream, lines 501-517.
parse_stream_end ==
  /\ AtSite("parse_stream", "501")
  /\ \E e \in Events :
       Step(e,
            IF IsStreamEnd(e)
            THEN parse_yaml_exit(Machine, Top(Machine).result)
            ELSE parse_yaml_exit(SetErr(Machine, "Expected stream end event"), 0),
            0, tagCalls)

\* The outcomes of a method lookup that matter in this run.
Lookups == IF alphabet.wrapper = "user" THEN LookupOutcomes ELSE {"SystemError"}

\* The program state in a step where the lookup does x.
Looking(x) == [Machine EXCEPT !.lookup = x]

\* parse_node on an alias event: make_alias.
parse_node_alias ==
  /\ AtNode
  /\ \E e \in Events : \E x \in Lookups :
       /\ e.type = "ALIAS"
       /\ Step(e, Deliver(Looking(x), make_alias(anchors, e.anchor), e.type),
               make_alias(anchors, e.anchor), tagCalls)

\* The calls of the tag callback after tag_object(tag, instance).
Called(tag, instance) ==
  IF TagCalled(tag, instance) THEN Append(tagCalls, <<tag, instance>>) ELSE tagCalls

\* The outcomes of the run's callback that matter for a node with this tag.
Outcomes(tag) ==
  IF tag = "" THEN {[does |-> "wrap", type |-> alphabet.wrapper]}
  ELSE {o \in TagOutcomes : o.type = alphabet.wrapper}

\* A new object on the heap.
NewObj(h, kind, val) == Append(h, Obj(kind, val))

\* The rest of a node's construction once tag_object returned t for the
\* instance: memo_anchor, with the object handed on.
Tagged(m, e, instance, t) ==
  [m |-> [m EXCEPT !.heap = t.heap, !.err = t.err,
                   !.anchors = memo_anchor(m.anchors, e.anchor, t.obj)],
   obj |-> t.obj,
   inst |-> instance]

\* make_scalar after _make_scalar returned r.
make_scalar_of(m, e, r, outcome) ==
  IF r.obj = NULL
  THEN Tagged(m, e, 0, tag_object(m.heap, r.err, e.tag, 0, outcome))
  ELSE Tagged(m, e, Len(m.heap) + 1,
              tag_object(NewObj(m.heap, r.obj.kind, r.obj.val), r.err, e.tag,
                         Len(m.heap) + 1, outcome))

\* make_scalar: resolve, tag, register.
make_scalar(m, e, outcome) ==
  make_scalar_of(m, e, _make_scalar(e.value, e.style, m.err), outcome)

\* The step of a node that is complete when built: it goes to the caller.
StepValue(e, r) ==
  Step(e, Deliver(r.m, r.obj, e.type), r.obj, Called(e.tag, r.inst))

\* parse_node on a scalar event: make_scalar.
parse_node_scalar ==
  /\ AtNode
  /\ \E e \in Events :
       /\ e.type = "SCALAR"
       /\ \E outcome \in Outcomes(e.tag) : \E x \in Lookups :
            StepValue(e, make_scalar(Looking(x), e, outcome))

\* A variant of IsOmap that hands over every tagged sequence.
IsOmapAnyTag(e) == e.tag # ""

\* Whether parse_sequence hands the sequence to parse_ordered_dict (line 307).
IsOmap(e) == e.tag = OMAP_TAG

\* A function entered with its container r built: its frame is pushed.
Enter(r, fn, at) ==
  [r EXCEPT !.m.stack = Append(@, [Frame(fn, at) EXCEPT !.result = r.obj])]

\* parse_ordered_dict, lines 228-236: the ordered dict and its anchor.
parse_ordered_dict(m, e) ==
  IF m.err # ""
  THEN [m |-> Deliver(SetErr(m, "SystemError"), 0, e.type), obj |-> 0, inst |-> 0]
  ELSE
  Enter([m |-> [m EXCEPT !.heap = NewObj(m.heap, "OrderedMapping", <<>>),
                         !.anchors = memo_anchor(m.anchors, e.anchor, Len(m.heap) + 1)],
         obj |-> Len(m.heap) + 1,
         inst |-> 0],
        "parse_ordered_dict", "239")

\* parse_sequence, lines 307-322: the list, its tag and its anchor.
parse_sequence(m, e, outcome) ==
  IF IsOmap(e) THEN parse_ordered_dict(m, e)
  ELSE Enter(Tagged(m, e, Len(m.heap) + 1,
                    tag_object(NewObj(m.heap, "Sequence", <<>>), m.err, e.tag,
                               Len(m.heap) + 1, outcome)),
             "parse_sequence", "child")

\* parse_mapping, lines 350-360: the dict, its tag and its anchor.
parse_mapping(m, e, outcome) ==
  Enter(Tagged(m, e, Len(m.heap) + 1,
               tag_object(NewObj(m.heap, "Mapping", <<>>), m.err, e.tag,
                          Len(m.heap) + 1, outcome)),
        "parse_mapping", "key")

\* The step of a container start: its children come next.
StepOpen(e, r) == Step(e, r.m, r.obj, Called(e.tag, r.inst))

\* parse_node on a sequence start event: parse_sequence up to its first
\* parse_node call, or parse_ordered_dict up to its first event.
parse_node_sequence ==
  /\ AtNode
  /\ \E e \in Events :
       /\ e.type = "SEQUENCE_START"
       /\ \E outcome \in Outcomes(IF IsOmap(e) THEN "" ELSE e.tag) :
            StepOpen(e, parse_sequence(Machine, e, outcome))

\* parse_node on a mapping start event: parse_mapping up to its first
\* parse_node call.
parse_node_mapping ==
  /\ AtNode
  /\ \E e \in Events :
       /\ e.type = "MAPPING_START"
       /\ \E outcome \in Outcomes(e.tag) :
            StepOpen(e, parse_mapping(Machine, e, outcome))

\* parse_node on any other event (line 413): NULL and no exception.
parse_node_default ==
  /\ AtNode
  /\ \E e \in Events : \E x \in Lookups :
       /\ e.type \notin NodeTypes
       /\ Step(e, Deliver(Looking(x), 0, e.type), 0, tagCalls)

\* parse_ordered_dict, lines 239-255: the event at an entry's place.
parse_ordered_dict_entry ==
  /\ AtSite("parse_ordered_dict", "239")
  /\ \E e \in Events : \E x \in Lookups :
       Step(e,
            IF e.type = "SEQUENCE_END"
            THEN Deliver(Pop(Looking(x)), Top(Machine).result, e.type)
            ELSE IF e.type = "MAPPING_START"
            THEN SetTop(Machine, [Top(Machine) EXCEPT !.at = "key"])
            ELSE Deliver(SetErr(Pop(Machine), "Expected mapping start or sequence end event"),
                         0, e.type),
            0, tagCalls)

\* parse_ordered_dict, lines 280-294: the event after an entry's pair.
parse_ordered_dict_entry_end ==
  /\ AtSite("parse_ordered_dict", "280")
  /\ \E e \in Events :
       Step(e,
            IF e.type = "MAPPING_END"
            THEN SetTop(Machine, [Top(Machine) EXCEPT !.at = "239"])
            ELSE Deliver(SetErr(Pop(Machine), "Expected mapping end event"), 0, e.type),
            0, tagCalls)

\* The exception a failed yaml_parser_parse call is reported with.
ParsingError(f) ==
  CASE f.fn = "parse_stream" /\ f.at = "482" -> "Parsing error 6"
    [] f.fn = "parse_stream" -> "Parsing error 7"
    [] f.fn = "parse_document" /\ f.at = "432" -> "Parsing error 4"
    [] f.fn = "parse_document" /\ f.at = "454" -> "Parsing error 5"
    [] f.fn = "parse_ordered_dict" /\ f.at = "239" -> "Parsing error 1"
    [] f.fn = "parse_ordered_dict" /\ f.at = "280" -> "Parsing error 2"
    [] OTHER -> "Parsing error 3"

\* A variant of ParseFailed in which the caller goes on after the failed pull.
ParseFailedGoesOn(m, f) == SetErr(m, "")

\* The caller of a failed yaml_parser_parse sets ValueError and returns NULL.
ParseFailed(m, f) ==
  IF ParsingError(f) = "Parsing error 3" THEN Deliver(m, 0, NoEvent.type)
  ELSE IF f.fn = "parse_ordered_dict" THEN Deliver(Pop(m), 0, NoEvent.type)
  ELSE parse_yaml_exit(m, 0)

\* yaml_parser_parse fails (a scanner, parser or reader error): the slot is
\* left cleared.
yaml_parser_parse_fails ==
  /\ status = "running"
  /\ MayPull
  /\ Commit(NoEvent,
            ParseFailed(SetErr(Machine, ParsingError(Top(Machine))), Top(Machine)),
            0, tagCalls, GBad(ghost, "producer"))

Next ==
  \/ parse_stream_start
  \/ parse_document_start
  \/ parse_node_alias
  \/ parse_node_scalar
  \/ parse_node_sequence
  \/ parse_node_mapping
  \/ parse_node_default
  \/ parse_ordered_dict_entry
  \/ parse_ordered_dict_entry_end
  \/ parse_document_end
  \/ parse_stream_end
  \/ yaml_parser_parse_fails

Spec == Init /\ [][Next]_vars

\* A step of the running program: one more call of yaml_parser_parse.
Pull == status = "running" /\ npulled' = npulled + 1

\* One parse of a finite stream.  The program is sequential and every call it
\* makes returns, so the running program does take its next step; each step
\* of Next is a Pull, and in these runs a running program can always take
\* one (yaml_parser_parse answers with an event, NO_EVENT or a failure).
FiniteInit == Start(FiniteProfiles)

SpecFinite == FiniteInit /\ [][Next]_vars /\ WF_npulled(Pull)

(***************************************************************************)
(* read_handler, called by the scanner for the first bytes of the input.   *)
(***************************************************************************)
\* read_handler(ext, buffer, size, &length) as the scanner calls it.
Request(n) == [ReaderIdle EXCEPT !.size = n, !.buffer = Zeros(n)]

\* Lines 528-531: fd.read(size) raises.
read_handler_raises ==
  /\ reader.pc = "idle"
  /\ \E n \in 1..MaxRead :
       reader' = [Request(n) EXCEPT !.pc = "done", !.source = "raises",
                                    !.exc = "IOError", !.ret = 0]
  /\ UNCHANGED parseVars

\* Lines 528-535: fd.read(size) returns an object that is not bytes.
read_handler_not_bytes ==
  /\ reader.pc = "idle"
  /\ \E n \in 1..MaxRead :
       reader' = [Request(n) EXCEPT !.pc = "done", !.source = "not bytes",
                                    !.exc = "TypeError", !.ret = 0]
  /\ UNCHANGED parseVars

\* Lines 528-540: fd.read(size) returns bytes; they are copied and counted.
read_handler_copies ==
  /\ reader.pc = "idle"
  /\ \E n \in 1..MaxRead : \E data \in ReadAnswers(n) : \E outcome \in OverrunOutcomes :
       reader' = [Request(n) EXCEPT
                    !.pc = "done", !.source = "bytes", !.data = data,
                    !.buffer = memcpy(n, ReaderIdle.beyond, data, outcome).buffer,
                    !.beyond = memcpy(n, ReaderIdle.beyond, data, outcome).beyond,
                    !.fault = memcpy(n, ReaderIdle.beyond, data, outcome).fault,
                    !.length = IF memcpy(n, ReaderIdle.beyond, data, outcome).fault
                               THEN 0 ELSE Len(data),
                    !.ret = IF memcpy(n, ReaderIdle.beyond, data, outcome).fault
                            THEN 0 ELSE 1]
  /\ UNCHANGED parseVars

\* read_handler returned 0: yaml_parser_parse fails with a reader error.
read_failure_aborts ==
  /\ reader.pc = "done"
  /\ reader.ret = 0
  /\ ~reader.fault
  /\ yaml_parser_parse_fails

ReadInit == Start({Run(PlainNodes, "object", FALSE)})

ReadNext ==
  \/ read_handler_raises
  \/ read_handler_not_bytes
  \/ read_handler_copies
  \/ read_failure_aborts

SpecRead == ReadInit /\ [][ReadNext]_vars

(***************************************************************************)
(* The scalar resolver alone: parse_node on the root scalar of a document, *)
(* the scalar drawn from all short texts over a few characters and some    *)
(* longer samples, in each style.                                          *)
(***************************************************************************)
\* The parse stands after DocumentStart, about to build the root node.
ScalarInit ==
  /\ status = "running"
  /\ stack = <<Frame("parse_stream", "490"), Frame("parse_document", "root")>>
  /\ event = Plain("DOCUMENT_START")
  /\ anchors = NoAnchors
  /\ heap = <<>>
  /\ err = ""
  /\ result = 0
  /\ npulled = 2
  /\ tagCalls = <<>>
  /\ nv = 0
  /\ alphabet = Run(ScalarNodes, "object", FALSE)
  /\ ghost = [GhostInit EXCEPT !.phase = "node"]
  /\ reader = ReaderIdle

ScalarNext == parse_node_scalar

SpecScalar == ScalarInit /\ [][ScalarNext]_vars

(***************************************************************************)
(* Properties                                                              *)
(***************************************************************************)
\* The errors that name the event a step expected.
StructuralErrors ==
  {"Expected stream start event", "Expected document start event",
   "Expected document end event", "Expected stream end event",
   "Expected sequence end event", "Expected mapping end event",
   "Expected mapping start or sequence end event"}

\* The error parse_yaml sets when nothing else was reported.
GenericError == "Error parsing YAML"

\* The places of the stream grammar outside the root node's own events.
DriverPositions == {"StreamStart", "DocumentStart", "root", "DocumentEnd", "StreamEnd"}

\* C1: parse returns a Value only if the events pulled are StreamStart,
\* DocumentStart, the events of exactly one root node, DocumentEnd, StreamEnd;
\* an event of another kind at one of these positions (a missing root node
\* included) makes parse fail with a structural error and no Value.
C1_StreamGrammar ==
  /\ status = "returned" => ghost.phase = "done"
  /\ ghost.badAt \in DriverPositions =>
       status = "failed" /\ err \in StructuralErrors /\ result = 0

\* A second DocumentStart was pulled where the stream should have ended.
SecondDocument == ghost.badAt = "StreamEnd" /\ event.type = "DOCUMENT_START"

\* C2 as claimed: for a stream that holds two documents parse returns the
\* first document's root Value.
C2_FirstDocumentReturned ==
  SecondDocument => status = "returned" /\ result # 0

\* C2 amended: for a stream that holds two documents parse pulls the events
\* up to the second DocumentStart, fails there with "Expected stream end
\* event", releases the first document's tree and returns no Value.
C2_SecondDocumentRejected ==
  SecondDocument =>
    /\ status = "failed"
    /\ err = "Expected stream end event"
    /\ result = 0
    /\ heap = <<>>

C2_Witness == SecondDocument /\ status = "failed" /\ npulled > 5

\* The key/value pairs of a mapping's children.
Pairs(kids) == [i \in 1..(Len(kids) \div 2) |-> <<kids[2 * i - 1], kids[2 * i]>>]

\* The closed container c holds its children: a list in event order, or a
\* dict of every key with the value that followed it.
HoldsChildren(c) ==
  IF c.kind = "seq"
  THEN heap[c.id].kind = "Sequence" /\ heap[c.id].items = c.kids
  ELSE heap[c.id].kind = "Mapping" /\ heap[c.id].items = Pairs(c.kids)

\* C3: for every well-nested, untagged node a SequenceStart with n >= 0
\* children and SequenceEnd yields a Sequence of those children in order, and
\* a MappingStart with n >= 0 key/value pairs and MappingEnd yields a Mapping
\* of those pairs, at any depth.
C3_ContainersHoldChildren ==
  alphabet.name = "plain" /\ ghost.phase # "bad" =>
    /\ status # "failed"
    /\ \A i \in 1..Len(ghost.done) : HoldsChildren(ghost.done[i])

\* C4: an Alias event returns the very object most recently registered under
\* its anchor by an earlier anchored Scalar, SequenceStart or MappingStart; a
\* later registration overwrites, one with an empty name or no object
\* changes nothing.
C4_AliasSharesLastRegistered ==
  status = "running" =>
    /\ anchors = ghost.reg
    /\ event.type = "ALIAS" => nv # 0 /\ nv = ghost.reg[event.anchor]

\* &a [ &a k, *a ]: the alias is the scalar, which took the name over.
C4_Witness ==
  /\ status = "running"
  /\ event.type = "ALIAS"
  /\ Len(heap) = 2
  /\ heap[1].kind = "Sequence"
  /\ heap[2].kind = "String"
  /\ heap[1].items = <<2, 2>>

C6_UndefinedAnchorErrorKind ==
  ghost.undef /\ status = "failed" /\ ~ghost.raised =>
    err \notin StructuralErrors \cup {GenericError}

\* The object the callback was given is the one built for a node of this
\* event type.
InstanceOf(id, type) ==
  CASE type = "SCALAR" -> heap[id].kind \in ScalarKinds
    [] type = "SEQUENCE_START" -> heap[id].kind \in {"Sequence", "OrderedMapping"}
    [] OTHER -> heap[id].kind = "Mapping"

\* C7: in a successful parse the tag callback is called exactly once, with
\* the node's tag and object, for every Scalar, SequenceStart and MappingStart
\* with a non-empty tag, the omap tag included, and for nothing else.
C7_CallbackOncePerTaggedNode ==
  status = "returned" =>
    /\ Len(tagCalls) = Len(ghost.tagged)
    /\ \A i \in 1..Len(tagCalls) :
         /\ tagCalls[i][1] = ghost.tagged[i][1]
         /\ InstanceOf(tagCalls[i][2], ghost.tagged[i][2])

\* The keys of the pairs differ from one another as dict keys.
DistinctKeys(ps) ==
  \A i, j \in 1..Len(ps) : i < j => ~KeyEq(heap, ps[i][1], ps[j][1])

\* What the closed container c was built as.
BuiltAs(c) ==
  CASE c.kind = "omap" ->
         /\ heap[c.id].kind = "OrderedMapping"
         /\ ~ghost.badOmap /\ DistinctKeys(Pairs(c.kids)) =>
              heap[c.id].items = Pairs(c.kids)
    [] c.kind = "seq" -> BaseKind(heap, c.id) = "Sequence"
    [] OTHER -> BaseKind(heap, c.id) = "Mapping"

C9_MalformedOmapEntryFails ==
  ghost.badOmap /\ ghost.phase # "bad" =>
    /\ status \in {"running", "failed"}
    /\ result = 0
    /\ ghost.phase \in {"DocumentEnd", "StreamEnd", "done"} => status = "failed"

\* !!omap [ {} ]: the empty entry.
C9_Witness ==
  /\ ghost.badOmap
  /\ ghost.phase # "bad"
  /\ event.type = "MAPPING_END"
  /\ status = "failed"

\* C10: a scalar of length 0 or of single- or double-quoted style resolves to
\* the String of its UTF-8 decoding, whatever its text.
C10_QuotedIsString ==
  /\ event.type = "SCALAR"
  /\ Len(event.value) = 0 \/ event.style \in {SINGLE_QUOTED, DOUBLE_QUOTED}
  => /\ status = "running"
     /\ err = ""
     /\ nv # 0
     /\ heap[nv].kind = "String"
     /\ heap[nv].val = Utf8From(event.value, 1, <<>>).cps

\* "123" in double quotes.
C10_Witness ==
  /\ event.style = DOUBLE_QUOTED
  /\ event.value = Bytes(<<"1", "2", "3">>)
  /\ nv # 0
  /\ heap[nv].kind = "String"
  /\ heap[nv].val = <<49, 50, 51>>

\* The event in the slot is an unquoted, non-empty scalar that was resolved.
PlainScalar ==
  event.type = "SCALAR" /\ event.style = PLAIN /\ Len(event.value) > 0

\* The scalar in the slot resolved to an object of this kind and value.
ResolvedTo(kind, val) ==
  status = "running" /\ nv # 0 /\ heap[nv].kind = kind /\ heap[nv].val = val

\* The bytes of text t from position i (counted from 1) on.
Rest(t, i) == SubSeq(t, i, Len(t))

HexDigit(c) == c \in (48..57) \cup (65..70) \cup (97..102)

\* The text is a non-empty run of digits of this kind.
IsRun(t, Digit(_)) == Len(t) > 0 /\ \A i \in 1..Len(t) : Digit(t[i])

RECURSIVE ValueIn(_, _, _)
\* The number the digits t stand for in this base, acc being the value of
\* the digits already read.
ValueIn(t, base, acc) ==
  IF t = <<>> THEN acc
  ELSE ValueIn(Tail(t), base,
               acc * base + (IF t[1] >= 97 THEN t[1] - 87
                             ELSE IF t[1] >= 65 THEN t[1] - 55 ELSE t[1] - 48))

\* C11: an unquoted scalar that starts with 0x is the Int of the remainder
\* read in base 16 if the remainder is a non-empty run of hex digits, and the
\* String of the full text otherwise.
C11_HexWholeMatch ==
  PlainScalar /\ Len(event.value) >= 2 /\ SubSeq(event.value, 1, 2) = <<48, 120>> =>
    IF IsRun(Rest(event.value, 3), HexDigit)
    THEN ResolvedTo("Int", <<ValueIn(Rest(event.value, 3), 16, 0)>>)
    ELSE ResolvedTo("String", event.value)

DecDigit(c) == c \in 48..57

OctDigit(c) == c \in 48..55

\* C12: an unquoted scalar made of 0 and one or more decimal digits is the
\* Int of the digits after the 0 read in base 8 if they are all in 0..7, and
\* the Int of the whole text read in base 10 otherwise; 0 alone is Int 0.
C12_OctalOrDecimal ==
  PlainScalar /\ event.value[1] = 48 /\ IsRun(event.value, DecDigit) =>
    IF Len(event.value) = 1 THEN ResolvedTo("Int", <<0>>)
    ELSE IF IsRun(Rest(event.value, 2), OctDigit)
    THEN ResolvedTo("Int", <<ValueIn(Rest(event.value, 2), 8, 0)>>)
    ELSE ResolvedTo("Int", <<ValueIn(event.value, 10, 0)>>)

\* 019 is the Int 19.
C12_Witness ==
  event.value = <<48, 49, 57>> /\ event.style = PLAIN /\ ResolvedTo("Int", <<19>>)

\* The literals of each special value.
NullTexts == {Bytes(<<"n", "u", "l", "l">>)}
TrueTexts == {Bytes(<<"t", "r", "u", "e">>)}
FalseTexts == {Bytes(<<"f", "a", "l", "s", "e">>)}
NaNTexts == {Bytes(<<".", "N", "a", "N">>), Bytes(<<".", "n", "a", "n">>)}
PlusInfTexts ==
  {Bytes(<<".", "I", "n", "f">>), Bytes(<<".", "i", "n", "f">>),
   Bytes(<<"+", ".", "I", "n", "f">>), Bytes(<<"+", ".", "i", "n", "f">>)}
MinusInfTexts ==
  {Bytes(<<"-", ".", "I", "n", "f">>), Bytes(<<"-", ".", "i", "n", "f">>)}

\* Texts that begin with a literal or differ from one in case only.
NearLiterals ==
  {Bytes(<<"n", "u", "l", "l", "x">>), Bytes(<<"t", "r", "u", "e", "y">>),
   Bytes(<<".", "i", "n", "f", "x">>), Bytes(<<"f", "a", "l", "s", "e", "s">>),
   Bytes(<<"-", ".", "I", "n", "f", "x">>), Bytes(<<"N", "u", "l", "l">>),
   Bytes(<<"T", "R", "U", "E">>), Bytes(<<".", "I", "N", "F">>),
   Bytes(<<".", "N", "A", "N">>), Bytes(<<"-", ".", "I", "N", "F">>)}

\* C13: an unquoted scalar is Null, true, false, NaN, +Infinity, -Infinity
\* exactly when its whole text is one of that value's literals; a text that
\* only begins with a literal or differs from it in case is a String.
C13_LiteralsExact ==
  PlainScalar =>
    /\ status = "running" /\ nv # 0
    /\ heap[nv].kind = "Null" <=> event.value \in NullTexts
    /\ heap[nv] = Obj("Bool", <<1>>) <=> event.value \in TrueTexts
    /\ heap[nv] = Obj("Bool", <<0>>) <=> event.value \in FalseTexts
    /\ heap[nv].kind = "Bool" => event.value \in TrueTexts \cup FalseTexts
    /\ heap[nv] = Obj("Float", <<2, 0, 0>>) <=> event.value \in NaNTexts
    /\ heap[nv] = Obj("Float", <<1, 0, 0>>) <=> event.value \in PlusInfTexts
    /\ heap[nv] = Obj("Float", <<0 - 1, 0, 0>>) <=> event.value \in MinusInfTexts
    /\ event.value \in NearLiterals => heap[nv] = Obj("String", event.value)

\* -.Inf is the Float -Infinity.
C13_Witness ==
  /\ PlainScalar
  /\ event.value = Bytes(<<"-", ".", "I", "n", "f">>)
  /\ ResolvedTo("Float", <<0 - 1, 0, 0>>)

\* The event in the slot opened a container that has a tag and an anchor.
TaggedAnchoredStart ==
  /\ status = "running"
  /\ event.type \in StartTypes
  /\ event.tag # ""
  /\ event.anchor # ""
  /\ nv # 0

\* The closed container c took its children into the callback's value.
ChildrenInTagged(c) ==
  heap[c.id].kind = "Tagged" /\ DistinctKeys(Pairs(c.kids)) =>
    heap[c.id].items = (IF c.kind = "seq" THEN c.kids ELSE Pairs(c.kids))

\* C14: for a node with a tag and an anchor the callback is applied before
\* the anchor is registered, for a container on the empty container before
\* the first child event is pulled; an alias to the anchor, inside the
\* container too, is the callback's value, and the children go into it.
C14_TagBeforeAnchor ==
  /\ TaggedAnchoredStart =>
       /\ heap[nv].kind = "Tagged"
       /\ heap[nv].tag = event.tag
       /\ heap[nv].items = <<>>
       /\ heap[heap[nv].raw].items = <<>>
       /\ anchors[event.anchor] = nv
  /\ status = "running" /\ event.type = "ALIAS" /\ ghost.regtag[event.anchor] =>
       heap[nv].kind = "Tagged"
  /\ status \in {"running", "returned"} /\ ghost.phase # "bad" =>
       \A i \in 1..Len(ghost.done) :
         ghost.done[i].id # 0 => ChildrenInTagged(ghost.done[i])

\* The objects a container holds directly: a list's elements, a dict's keys
\* and values.
Children(h, id) ==
  IF BaseKind(h, id) = "Sequence"
  THEN {h[id].items[i] : i \in 1..Len(h[id].items)}
  ELSE UNION {{h[id].items[i][1], h[id].items[i][2]} : i \in 1..Len(h[id].items)}

\* The objects reached from the set s in at most n further steps.
RECURSIVE Reach(_, _, _)
Reach(h, s, n) ==
  IF n = 0 THEN s
  ELSE Reach(h, s \cup UNION {Children(h, id) : id \in s}, n - 1)

\* The container id is reached from itself through its children.
OnCycle(h, id) == id \in Reach(h, Children(h, id), Len(h))

\* The containers under construction when the event in the slot was pulled.
OpenContainers == {ghost.stack[i].id : i \in 1..Len(ghost.stack)}

\* C15: an alias resolves only to a node whose construction is complete, and
\* in a returned graph no container is reached from itself through its
\* children.
C15_NoCycle ==
  /\ status = "running" /\ event.type = "ALIAS" /\ nv # 0 => nv \notin OpenContainers
  /\ status = "returned" => \A id \in 1..Len(heap) : ~OnCycle(heap, id)

\* C16: when a started sequence or mapping is not closed by its own End
\* event, or a mapping or omap entry has a key with no value, parse does not
\* return a Value: an End event pulled by a failed inner node is never taken
\* by the enclosing container as its own end.
C16_NoValueAfterMisnesting ==
  ghost.badAt = "inner" => status # "returned"

\* C17: when the tag callback fails for a Scalar, SequenceStart or
\* MappingStart, parse fails with the callback's error at once: no further
\* event is pulled and the absent container is never appended to, inserted
\* into or released.
C17_TagFailureStops ==
  ghost.raised => status = "failed" /\ err = "TagError"

\* C18: once a step of a parse has reported an error, parse returns no
\* Value; no later step discards the pending error.
C18_ReportedErrorIsFatal ==
  ghost.reported => status # "returned"

\* C19: for every finite event stream parse terminates; it pulls the events
\* in order, one per step into the one slot; a successful parse has pulled
\* StreamEnd last, nothing is pulled after a StreamEnd, and nothing is pulled
\* after the producer reported a failure.
C19_TerminatesPullingInOrder ==
  /\ <>(status # "running")
  /\ [][Pull]_vars
  /\ [](status = "returned" => event.type = "STREAM_END")
  /\ [](event.type = "STREAM_END" => status # "running")
  /\ [](ghost.badAt = "producer" => status # "running")

C19_Witness ==
  /\ status = "returned"
  /\ event.type = "STREAM_END"
  /\ npulled = MaxEvents
  /\ Len(heap) >= 3

\* The source of the request misbehaved: it raised, returned no bytes object,
\* or returned more bytes than asked for.
Misbehaved == reader.source \in {"raises", "not bytes"} \/ Len(reader.data) > reader.size

\* C20: for a request of size n at most n bytes are copied into the
\* scanner's buffer and reported as length; a source that raises, returns a
\* non-bytes object or returns more than n bytes makes the read fail, and
\* nothing is copied beyond the buffer.
C20_ReadWithinRequest ==
  reader.pc = "done" =>
    /\ ~reader.fault
    /\ reader.beyond = Zeros(Slack)
    /\ reader.ret = 1 => reader.length <= reader.size
    /\ Misbehaved => reader.ret = 0

=============================================================================
